---- MODULE Spec2Model ----
(***************************************************************************)
(* Polling coordinator of the usage dashboard (src-tauri/src/lib.rs).      *)
(*                                                                         *)
(* Processes: the spawned polling task (first do_fetch, then the select!   *)
(* loop), the blocking credentials watcher task, and the command handlers  *)
(* get_usage, force_refresh and set_polling_interval, which run on other   *)
(* threads and interleave with the two tasks at every await point.         *)
(*                                                                         *)
(* Library primitives are modelled by what they do:                        *)
(*   tokio::sync::Notify   one stored permit plus the state of the single  *)
(*                         Notified future of the loop.  notify_one() hands *)
(*                         the notification to a registered waiter, or     *)
(*                         stores the permit when no waiter is registered  *)
(*                         (a waiter that was already notified has left    *)
(*                         the wait list).  Dropping a notified future     *)
(*                         that did not complete passes the notification   *)
(*                         on, which stores the permit.                    *)
(*   tokio::sync::watch    the value plus "a version the receiver has not  *)
(*                         seen"; send() always bumps the version,         *)
(*                         borrow() does not mark it seen, changed() does. *)
(*   tokio::select!        polls the branches in random order, the first   *)
(*                         ready one wins, the other futures are dropped.  *)
(*   std::sync::mpsc       unbounded FIFO of unit values.                  *)
(* Time is counted in ticks of 1/TicksPerSec second.                       *)
(***************************************************************************)
EXTENDS Integers, Sequences, FiniteSets, TLC

\* ---------------------------------------------------------------- bounds
TicksPerSec == 2
MaxSnap == 2
MaxTok == 2
MaxCop == 1
MaxReqs == 2
MaxEvents == 3
MaxSignals == 2

\* ------------------------------------------------------ program constants
InitialInterval == 60
MinInterval == 10
MaxInterval == 600
ExpiryMarginMs == 30000
DebounceSecs == 1

\* ------------------------------------------------------------ input sets
Snapshots == 1..MaxSnap
Tokens == 1..MaxTok
CopilotData == 1..MaxCop
IntervalInputs ==
    {MinInterval - 1, MinInterval, InitialInterval, MaxInterval, MaxInterval + 1}
NowBase == 100000
NowValues == {NowBase, NowBase + 1}
ExpiryValues == {NowBase + ExpiryMarginMs, NowBase + ExpiryMarginMs + 1}

\* ------------------------------------------------- Option<T> and Result<T>
None == <<>>
Some(x) == <<x>>
IsSome(o) == o # <<>>
Unwrap(o) == o[1]
Ok(x) == [ok |-> TRUE, val |-> <<x>>]
Err == [ok |-> FALSE, val |-> <<>>]
\* Result::ok(): Ok(x) -> Some(x), Err -> None
ResultOk(r) == IF r.ok THEN Some(r.val[1]) ELSE None

Min(a, b) == IF a < b THEN a ELSE b

\* ---------------------------------------------------------------- events
UsageUpdate(cl, cop) ==
    [name |-> "usage-update", claude |-> Some(cl), copilot |-> cop, status |-> ""]
TokenStatus(s) ==
    [name |-> "token-status", claude |-> None, copilot |-> None, status |-> s]
CopilotOnlyUpdate(c) ==
    [name |-> "copilot-only-update", claude |-> None, copilot |-> Some(c), status |-> ""]

\* CombinedUsageData { claude, copilot }
CombinedUsageData(cl, cop) == [claude |-> cl, copilot |-> cop]

\* Credentials file contents as read_token_info sees them.
TokenInfo(t, e) == [access_token |-> t, expires_at |-> e]
CredValues == {Err} \cup {Ok(TokenInfo(t, e)) : t \in Tokens, e \in ExpiryValues}

\* A credentials file with a token that is valid at NowBase.
GoodCred == Ok(TokenInfo(1, NowBase + ExpiryMarginMs + 1))

\* Variant: the boundary now_ms + margin = expires_at counts as valid.
is_token_expired_strict(expires_at, now_ms) == now_ms + ExpiryMarginMs > expires_at

\* is_token_expired with the clock reading as a parameter.
is_token_expired(expires_at, now_ms) == now_ms + ExpiryMarginMs >= expires_at

VARIABLES
    \* AppState behind Arc<Mutex<..>>
    latest_usage,     \* Option<UsageData>
    mutex,            \* "free" | "fetch" | "reader": holder of the AppState lock
    \* PollingControl
    interval,         \* value held by the watch channel
    rx_unseen,        \* interval_rx has a version it has not seen
    permit,           \* refresh_notify holds a stored permit
    waiter,           \* Notified future of the loop: "none" | "waiting" | "notified"
    \* polling task
    cpc,              \* position of the polling task
    secs,             \* secs read at the top of the loop
    elapsed,          \* ticks slept in the current select! (0 outside it)
    token_info,       \* do_fetch local
    claude_result,    \* do_fetch local: Option<Result<UsageData>>
    github_config,    \* do_fetch local: Option<bool> (config present?)
    copilot_result,   \* do_fetch local: Option<CopilotUsageData>
    emitted,          \* events emitted by the current do_fetch, in order
    \* environment
    cred,             \* credentials file as read_token_info would read it
    \* command handlers
    rpc,              \* get_usage: "idle" | "locked"
    usage_ret,        \* last return value of get_usage
    set_arg, set_ret, \* last set_polling_interval call: argument and result
    \* history
    trigger,          \* what started the cycle in progress
    inflight,         \* do_fetch invocations that have not returned
    last_good,        \* primary snapshot of the last cycle whose fetch_usage was Ok
    usage_at_start,   \* latest_usage when the cycle in progress started
    ever_ok,          \* some do_fetch with a successful primary fetch has returned
    copilot_fetched,  \* what fetch_copilot_usage returned in this cycle, if called
    now_read,         \* clock value is_token_expired read in this cycle (0: not called)
    fetch_token,      \* access token passed to fetch_usage in this cycle, if called
    batch_kind,       \* current batch of notify_one calls: "none", "wait" (all
                      \* by force_refresh within one wait, no timer expiry),
                      \* "cycle" (all within one do_fetch) or "mixed"
    batch_n,          \* number of notify_one calls in the batch
    batch_cycles,     \* cycles started by refresh_notify since the batch began
    \* watcher task
    wpc,              \* "setup" | "failed" | "recv" | "drain" | "notify"
    chan,             \* mpsc channel: each unit value tagged with its burst
    waited,           \* ticks spent in the current recv_timeout (0 outside it)
    window,           \* ticks since rx.recv() returned (0 outside the drain loop)
    since_last,       \* ticks since the last raw event (capped)
    raw_total,        \* raw modify/create events so far
    cur_burst,        \* number of the burst the last raw event belongs to
    drain_set,        \* bursts whose events the current recv/drain round received
    notifies          \* per burst: notify_one calls that cover it

vars == << latest_usage, mutex, interval, rx_unseen, permit, waiter, cpc, secs,
           elapsed, token_info, claude_result, github_config, copilot_result,
           emitted, cred, rpc, usage_ret, set_arg, set_ret, trigger, inflight,
           last_good, usage_at_start, ever_ok, copilot_fetched, now_read,
           fetch_token, batch_kind, batch_n,
           batch_cycles, wpc, chan, waited, window, since_last, raw_total, cur_burst,
           drain_set, notifies >>

appVars == << latest_usage, mutex >>
ctlVars == << interval, rx_unseen, permit, waiter >>
readVars == << now_read, fetch_token >>
localVars == << token_info, claude_result, github_config, copilot_result, emitted,
               copilot_fetched, readVars >>
cmdVars == << rpc, usage_ret, set_arg, set_ret >>
histVars == << trigger, inflight, last_good, usage_at_start, ever_ok >>
batchVars == << batch_kind, batch_n, batch_cycles >>
watchVars == << wpc, chan, waited, window, since_last, raw_total, cur_burst, drain_set,
               notifies >>
\* everything do_fetch never touches
outerVars == << batchVars, watchVars >>

DebounceTicks == DebounceSecs * TicksPerSec

Deadline == secs * TicksPerSec
InFetch == cpc \notin {"start", "loop", "wait"}

Init ==
    /\ latest_usage = None
    /\ mutex = "free"
    /\ interval = InitialInterval
    /\ rx_unseen = FALSE
    /\ permit = FALSE
    /\ waiter = "none"
    /\ cpc = "start"
    /\ secs = InitialInterval
    /\ elapsed = 0
    /\ token_info = None
    /\ claude_result = None
    /\ github_config = None
    /\ copilot_result = None
    /\ emitted = <<>>
    /\ cred \in CredValues
    /\ rpc = "idle"
    /\ usage_ret = None
    /\ set_arg = 0
    /\ set_ret = "none"
    /\ trigger = "none"
    /\ inflight = 0
    /\ last_good = None
    /\ usage_at_start = None
    /\ ever_ok = FALSE
    /\ copilot_fetched = None
    /\ now_read = 0
    /\ fetch_token = None
    /\ batch_kind = "none"
    /\ batch_n = 0
    /\ batch_cycles = 0
    /\ wpc = "setup"
    /\ chan = <<>>
    /\ waited = 0
    /\ window = 0
    /\ since_last = DebounceTicks
    /\ raw_total = 0
    /\ cur_burst = 0
    /\ drain_set = {}
    /\ notifies = [b \in 1..MaxEvents |-> 0]

\* ------------------------------------------------------------ Notify
\* refresh_notify.notify_one()
notify_one ==
    IF waiter = "waiting"
    THEN waiter' = "notified" /\ UNCHANGED permit
    ELSE permit' = TRUE /\ UNCHANGED waiter

\* Variant: dropping the future discards a delivered notification.
DropNotifiedLoses ==
    /\ waiter' = "none"
    /\ permit' = permit

\* select! completed on another branch: the Notified future is dropped.
DropNotified ==
    /\ waiter' = "none"
    /\ permit' = (permit \/ waiter = "notified")

\* ------------------------------------------------------------ do_fetch
\* Variant: the cycle is spawned and the loop goes on without awaiting it.
BeginFetchDetached(trig) ==
    /\ cpc' = "loop"
    /\ trigger' = trig
    /\ inflight' = inflight + 1
    /\ usage_at_start' = latest_usage
    /\ batch_cycles' = IF trig = "notify" /\ batch_n > 0
                       THEN Min(batch_cycles + 1, 2) ELSE batch_cycles
    /\ batch_kind' = IF trig = "timer" /\ batch_n > 0 /\ batch_cycles = 0
                     THEN "mixed" ELSE batch_kind
    /\ UNCHANGED << localVars, batch_n >>

\* do_fetch(&app_handle) is entered.
BeginFetch(trig) ==
    /\ cpc' = "read_token"
    /\ trigger' = trig
    /\ inflight' = inflight + 1
    /\ usage_at_start' = latest_usage
    /\ batch_cycles' = IF trig = "notify" /\ batch_n > 0
                       THEN Min(batch_cycles + 1, 2) ELSE batch_cycles
    /\ batch_kind' = IF trig = "timer" /\ batch_n > 0 /\ batch_cycles = 0
                     THEN "mixed" ELSE batch_kind
    /\ UNCHANGED << localVars, batch_n >>

\* Variant: an unreadable credentials file ends the cycle without an event.
ReadTokenSilent(now_ms) ==
    /\ cpc = "read_token"
    /\ IF ~cred.ok
       THEN /\ emitted' = emitted
            /\ cpc' = "ret"
            /\ UNCHANGED << token_info, now_read >>
       ELSE IF is_token_expired(Unwrap(cred.val).expires_at, now_ms)
       THEN /\ emitted' = Append(emitted, TokenStatus("expired"))
            /\ token_info' = Some(Unwrap(cred.val))
            /\ now_read' = now_ms
            /\ cpc' = "ret"
       ELSE /\ token_info' = Some(Unwrap(cred.val))
            /\ now_read' = now_ms
            /\ cpc' = "lock_client"
            /\ UNCHANGED emitted
    /\ UNCHANGED << appVars, ctlVars, secs, elapsed, claude_result, github_config,
                    copilot_result, copilot_fetched, fetch_token, cred, cmdVars,
                    histVars, outerVars >>

\* Variant: the credential is the one held since start-up, not the file.
ReadTokenCached(now_ms) ==
    /\ cpc = "read_token"
    /\ IF ~GoodCred.ok
       THEN /\ emitted' = Append(emitted, TokenStatus("error"))
            /\ cpc' = "ret"
            /\ UNCHANGED << token_info, now_read >>
       ELSE IF is_token_expired(Unwrap(GoodCred.val).expires_at, now_ms)
       THEN /\ emitted' = Append(emitted, TokenStatus("expired"))
            /\ token_info' = Some(Unwrap(GoodCred.val))
            /\ now_read' = now_ms
            /\ cpc' = "ret"
       ELSE /\ token_info' = Some(Unwrap(GoodCred.val))
            /\ now_read' = now_ms
            /\ cpc' = "lock_client"
            /\ UNCHANGED emitted
    /\ UNCHANGED << appVars, ctlVars, secs, elapsed, claude_result, github_config,
                    copilot_result, copilot_fetched, fetch_token, cred, cmdVars,
                    histVars, outerVars >>

\* read_token_info() and is_token_expired()
ReadToken(now_ms) ==
    /\ cpc = "read_token"
    /\ IF ~cred.ok
       THEN /\ emitted' = Append(emitted, TokenStatus("error"))
            /\ cpc' = "ret"
            /\ UNCHANGED << token_info, now_read >>
       ELSE IF is_token_expired(Unwrap(cred.val).expires_at, now_ms)
       THEN /\ emitted' = Append(emitted, TokenStatus("expired"))
            /\ token_info' = Some(Unwrap(cred.val))
            /\ now_read' = now_ms
            /\ cpc' = "ret"
       ELSE /\ token_info' = Some(Unwrap(cred.val))
            /\ now_read' = now_ms
            /\ cpc' = "lock_client"
            /\ UNCHANGED emitted
    /\ UNCHANGED << appVars, ctlVars, secs, elapsed, claude_result, github_config,
                    copilot_result, copilot_fetched, fetch_token, cred, cmdVars,
                    histVars, outerVars >>

\* state.lock().await for the client copy
LockClient ==
    /\ cpc = "lock_client"
    /\ mutex = "free"
    /\ mutex' = "fetch"
    /\ cpc' = "clone_client"
    /\ UNCHANGED << latest_usage, ctlVars, secs, elapsed, localVars, cred, cmdVars,
                    histVars, outerVars >>

\* Variant: the guard lives on after the block.
CloneClientKeepsGuard ==
    /\ cpc = "clone_client"
    /\ mutex' = mutex
    /\ cpc' = "fetch_claude"
    /\ UNCHANGED << latest_usage, ctlVars, secs, elapsed, localVars, cred, cmdVars,
                    histVars, outerVars >>

\* s.http_client.clone(); the guard is dropped at the end of the block
CloneClient ==
    /\ cpc = "clone_client"
    /\ mutex' = "free"
    /\ cpc' = "fetch_claude"
    /\ UNCHANGED << latest_usage, ctlVars, secs, elapsed, localVars, cred, cmdVars,
                    histVars, outerVars >>

\* fetch_usage(..).await returns r; read_app_config().ok().and_then(|c| c.github)
\* yields a config (cfg = TRUE) or None.
FetchClaude(r, cfg) ==
    /\ cpc = "fetch_claude"
    /\ claude_result' = Some(r)
    /\ github_config' = Some(cfg)
    /\ last_good' = IF r.ok THEN r.val ELSE last_good
    /\ IF cfg
       THEN cpc' = "fetch_copilot" /\ UNCHANGED copilot_result
       ELSE cpc' = "match" /\ copilot_result' = None
    /\ fetch_token' = Some(Unwrap(token_info).access_token)
    /\ UNCHANGED << appVars, ctlVars, secs, elapsed, token_info, emitted,
                    copilot_fetched, now_read, cred, cmdVars, trigger, inflight,
                    usage_at_start, ever_ok, outerVars >>

\* Variant: a failed fetch_copilot_usage ends the cycle.
FetchCopilotAborts(r) ==
    /\ cpc = "fetch_copilot"
    /\ copilot_result' = ResultOk(r)
    /\ copilot_fetched' = Some(r)
    /\ cpc' = IF r.ok THEN "match" ELSE "ret"
    /\ UNCHANGED << appVars, ctlVars, secs, elapsed, token_info, claude_result,
                    github_config, emitted, readVars, cred, cmdVars, histVars,
                    outerVars >>

\* fetch_copilot_usage(..).await.ok()
FetchCopilot(r) ==
    /\ cpc = "fetch_copilot"
    /\ copilot_result' = ResultOk(r)
    /\ copilot_fetched' = Some(r)
    /\ cpc' = "match"
    /\ UNCHANGED << appVars, ctlVars, secs, elapsed, token_info, claude_result,
                    github_config, emitted, readVars, cred, cmdVars, histVars,
                    outerVars >>

\* Variant: the combined payload drops the Copilot data.
EmitUsageUpdateNoCopilot ==
    /\ cpc = "match"
    /\ Unwrap(claude_result).ok
    /\ LET combined == CombinedUsageData(Unwrap(Unwrap(claude_result).val), None)
       IN emitted' = Append(emitted, UsageUpdate(combined.claude, combined.copilot))
    /\ cpc' = "emit_ok"
    /\ UNCHANGED << appVars, ctlVars, secs, elapsed, token_info, claude_result,
                    github_config, copilot_result, copilot_fetched, readVars, cred, cmdVars,
                    histVars, outerVars >>

\* match claude_result: Ok arm, emit("usage-update", &combined)
EmitUsageUpdate ==
    /\ cpc = "match"
    /\ Unwrap(claude_result).ok
    /\ LET combined == CombinedUsageData(Unwrap(Unwrap(claude_result).val), copilot_result)
       IN emitted' = Append(emitted, UsageUpdate(combined.claude, combined.copilot))
    /\ cpc' = "emit_ok"
    /\ UNCHANGED << appVars, ctlVars, secs, elapsed, token_info, claude_result,
                    github_config, copilot_result, copilot_fetched, readVars, cred, cmdVars,
                    histVars, outerVars >>

\* Variant: the Ok arm reports the status twice.
EmitStatusOkTwice ==
    /\ cpc = "emit_ok"
    /\ emitted' = emitted \o << TokenStatus("ok"), TokenStatus("ok") >>
    /\ cpc' = "lock_write"
    /\ UNCHANGED << appVars, ctlVars, secs, elapsed, token_info, claude_result,
                    github_config, copilot_result, copilot_fetched, readVars, cred,
                    cmdVars, histVars, outerVars >>

\* emit("token-status", "ok")
EmitStatusOk ==
    /\ cpc = "emit_ok"
    /\ emitted' = Append(emitted, TokenStatus("ok"))
    /\ cpc' = "lock_write"
    /\ UNCHANGED << appVars, ctlVars, secs, elapsed, token_info, claude_result,
                    github_config, copilot_result, copilot_fetched, readVars, cred, cmdVars,
                    histVars, outerVars >>

\* state.lock().await for the write
LockWrite ==
    /\ cpc = "lock_write"
    /\ mutex = "free"
    /\ mutex' = "fetch"
    /\ cpc' = "write_state"
    /\ UNCHANGED << latest_usage, ctlVars, secs, elapsed, localVars, cred, cmdVars,
                    histVars, outerVars >>

\* Variant: the lock is taken but the snapshot is not stored.
WriteStateSkipped ==
    /\ cpc = "write_state"
    /\ latest_usage' = latest_usage
    /\ mutex' = "free"
    /\ cpc' = "ret"
    /\ UNCHANGED << ctlVars, secs, elapsed, localVars, cred, cmdVars, histVars,
                    outerVars >>

\* s.latest_usage = Some(claude_data); the guard is dropped as the arm ends
WriteState ==
    /\ cpc = "write_state"
    /\ latest_usage' = Some(Unwrap(Unwrap(claude_result).val))
    /\ mutex' = "free"
    /\ cpc' = "ret"
    /\ UNCHANGED << ctlVars, secs, elapsed, localVars, cred, cmdVars, histVars, outerVars >>

\* Variant: the Err arm never sends the Copilot data.
EmitFetchErrorOnly ==
    /\ cpc = "match"
    /\ ~Unwrap(claude_result).ok
    /\ emitted' = Append(emitted, TokenStatus("fetch_error"))
    /\ cpc' = "ret"
    /\ UNCHANGED << appVars, ctlVars, secs, elapsed, token_info, claude_result,
                    github_config, copilot_result, copilot_fetched, readVars, cred,
                    cmdVars, histVars, outerVars >>

\* Variant: a failed primary fetch also clears the stored snapshot.
EmitFetchErrorClears ==
    /\ cpc = "match"
    /\ ~Unwrap(claude_result).ok
    /\ emitted' = Append(emitted, TokenStatus("fetch_error"))
    /\ cpc' = IF IsSome(copilot_result) THEN "emit_copilot" ELSE "ret"
    /\ latest_usage' = None
    /\ UNCHANGED << mutex, ctlVars, secs, elapsed, token_info, claude_result,
                    github_config, copilot_result, copilot_fetched, readVars, cred, cmdVars,
                    histVars, outerVars >>

\* match claude_result: Err arm, emit("token-status", "fetch_error")
EmitFetchError ==
    /\ cpc = "match"
    /\ ~Unwrap(claude_result).ok
    /\ emitted' = Append(emitted, TokenStatus("fetch_error"))
    /\ cpc' = IF IsSome(copilot_result) THEN "emit_copilot" ELSE "ret"
    /\ UNCHANGED << appVars, ctlVars, secs, elapsed, token_info, claude_result,
                    github_config, copilot_result, copilot_fetched, readVars, cred, cmdVars,
                    histVars, outerVars >>

\* emit("copilot-only-update", &copilot_data)
EmitCopilotOnly ==
    /\ cpc = "emit_copilot"
    /\ emitted' = Append(emitted, CopilotOnlyUpdate(Unwrap(copilot_result)))
    /\ cpc' = "ret"
    /\ UNCHANGED << appVars, ctlVars, secs, elapsed, token_info, claude_result,
                    github_config, copilot_result, copilot_fetched, readVars, cred, cmdVars,
                    histVars, outerVars >>

\* do_fetch returns to the loop.
Return ==
    /\ cpc = "ret"
    /\ cpc' = "loop"
    /\ inflight' = inflight - 1
    /\ ever_ok' = (ever_ok \/ (IsSome(claude_result) /\ Unwrap(claude_result).ok))
    /\ token_info' = None
    /\ claude_result' = None
    /\ github_config' = None
    /\ copilot_result' = None
    /\ emitted' = <<>>
    /\ copilot_fetched' = None
    /\ now_read' = 0
    /\ fetch_token' = None
    /\ trigger' = "none"
    /\ usage_at_start' = None
    /\ UNCHANGED << appVars, ctlVars, secs, elapsed, cred, cmdVars, last_good,
                    outerVars >>

\* ------------------------------------------------------- polling task
\* line 500: the immediate first fetch
InitialFetch ==
    /\ cpc = "start"
    /\ BeginFetch("initial")
    /\ UNCHANGED << appVars, ctlVars, secs, elapsed, cred, cmdVars, last_good,
                    ever_ok, watchVars >>

\* Top of the loop: secs = *interval_rx.borrow(), then the first poll of
\* select!.  The fresh sleep is never ready at the first poll.
\* Variant: the stored permit is not consumed.
PollNotifiedKeepsPermit ==
    /\ cpc = "loop"
    /\ permit
    /\ secs' = interval
    /\ permit' = permit
    /\ BeginFetch("notify")
    /\ UNCHANGED << appVars, interval, rx_unseen, waiter, elapsed, cred, cmdVars,
                    last_good, ever_ok, watchVars >>

\* First poll, notified() finds the stored permit and wins.
PollNotified ==
    /\ cpc = "loop"
    /\ permit
    /\ secs' = interval
    /\ permit' = FALSE
    /\ BeginFetch("notify")
    /\ UNCHANGED << appVars, interval, rx_unseen, waiter, elapsed, cred, cmdVars,
                    last_good, ever_ok, watchVars >>

\* First poll, changed() finds an unseen version and wins: continue.
PollChanged ==
    /\ cpc = "loop"
    /\ rx_unseen
    /\ secs' = interval
    /\ rx_unseen' = FALSE
    /\ cpc' = "loop"
    /\ UNCHANGED << appVars, interval, permit, waiter, elapsed, localVars, cred,
                    cmdVars, histVars, outerVars >>

\* First poll, no branch is ready: the task suspends in select!.
Register ==
    /\ cpc = "loop"
    /\ ~permit
    /\ ~rx_unseen
    /\ secs' = interval
    /\ elapsed' = 0
    /\ waiter' = "waiting"
    /\ cpc' = "wait"
    /\ UNCHANGED << appVars, interval, rx_unseen, permit, localVars, cred, cmdVars,
                    histVars, outerVars >>

\* Variant: the sleep completes before its duration has passed.
TimerFiresEarly ==
    /\ cpc = "wait"
    /\ elapsed >= 0
    /\ DropNotified
    /\ elapsed' = 0
    /\ BeginFetch("timer")
    /\ UNCHANGED << appVars, interval, rx_unseen, secs, cred, cmdVars, last_good,
                    ever_ok, watchVars >>

\* sleep(secs) completes and wins the select!.
TimerFires ==
    /\ cpc = "wait"
    /\ elapsed >= Deadline
    /\ DropNotified
    /\ elapsed' = 0
    /\ BeginFetch("timer")
    /\ UNCHANGED << appVars, interval, rx_unseen, secs, cred, cmdVars, last_good,
                    ever_ok, watchVars >>

\* notified() completes and wins the select!.
NotifiedFires ==
    /\ cpc = "wait"
    /\ waiter = "notified"
    /\ waiter' = "none"
    /\ elapsed' = 0
    /\ BeginFetch("notify")
    /\ UNCHANGED << appVars, interval, rx_unseen, permit, secs, cred, cmdVars,
                    last_good, ever_ok, watchVars >>

\* Variant: the changed() arm runs a cycle instead of continuing.
ChangedFiresFetches ==
    /\ cpc = "wait"
    /\ rx_unseen
    /\ rx_unseen' = FALSE
    /\ DropNotified
    /\ elapsed' = 0
    /\ BeginFetch("changed")
    /\ UNCHANGED << appVars, interval, secs, cred, cmdVars, last_good, ever_ok,
                    watchVars >>

\* interval_rx.changed() completes and wins the select!: continue.
ChangedFires ==
    /\ cpc = "wait"
    /\ rx_unseen
    /\ rx_unseen' = FALSE
    /\ DropNotified
    /\ elapsed' = 0
    /\ cpc' = "loop"
    /\ UNCHANGED << appVars, interval, secs, localVars, cred, cmdVars, histVars,
                    outerVars >>

\* ---------------------------------------------------- command handlers
\* Bookkeeping of one more refresh_notify.notify_one() call.
CallKind(fromWatcher) ==
    IF cpc = "wait" THEN (IF fromWatcher THEN "mixed" ELSE "wait")
    ELSE IF InFetch THEN "cycle" ELSE "mixed"

CountRequest(fromWatcher) ==
    IF batch_n = 0 \/ batch_cycles > 0
    THEN /\ batch_kind' = CallKind(fromWatcher)
         /\ batch_n' = 1
         /\ batch_cycles' = 0
    ELSE /\ batch_kind' = IF batch_kind = CallKind(fromWatcher)
                          THEN batch_kind ELSE "mixed"
         /\ batch_n' = Min(batch_n + 1, MaxReqs)
         /\ UNCHANGED batch_cycles

\* force_refresh
force_refresh ==
    /\ batch_n < MaxReqs \/ batch_cycles > 0
    /\ notify_one
    /\ CountRequest(FALSE)
    /\ UNCHANGED << appVars, interval, rx_unseen, cpc, secs, elapsed, localVars,
                    cred, cmdVars, histVars, watchVars >>

\* Variant: the bounds are exclusive.
set_polling_interval_exclusive(seconds) ==
    /\ set_arg' = seconds
    /\ IF seconds <= MinInterval \/ seconds >= MaxInterval
       THEN /\ set_ret' = "Err"
            /\ UNCHANGED << interval, rx_unseen >>
       ELSE /\ interval' = seconds
            /\ rx_unseen' = TRUE
            /\ set_ret' = "Ok"
    /\ UNCHANGED << appVars, permit, waiter, cpc, secs, elapsed, localVars, cred,
                    rpc, usage_ret, histVars, outerVars >>

\* set_polling_interval(seconds)
set_polling_interval(seconds) ==
    /\ set_arg' = seconds
    /\ IF seconds < MinInterval \/ seconds > MaxInterval
       THEN /\ set_ret' = "Err"
            /\ UNCHANGED << interval, rx_unseen >>
       ELSE /\ interval' = seconds
            /\ rx_unseen' = TRUE
            /\ set_ret' = "Ok"
    /\ UNCHANGED << appVars, permit, waiter, cpc, secs, elapsed, localVars, cred,
                    rpc, usage_ret, histVars, outerVars >>

\* get_usage: state.lock().await
GetUsageLock ==
    /\ rpc = "idle"
    /\ mutex = "free"
    /\ mutex' = "reader"
    /\ rpc' = "locked"
    /\ UNCHANGED << latest_usage, ctlVars, cpc, secs, elapsed, localVars, cred,
                    usage_ret, set_arg, set_ret, histVars, outerVars >>

\* get_usage: latest_usage.clone().ok_or_else(..), guard dropped on return
GetUsageRead ==
    /\ rpc = "locked"
    /\ usage_ret' = Some(IF IsSome(latest_usage) THEN Ok(Unwrap(latest_usage)) ELSE Err)
    /\ mutex' = "free"
    /\ rpc' = "idle"
    /\ UNCHANGED << latest_usage, ctlVars, cpc, secs, elapsed, localVars, cred,
                    set_arg, set_ret, histVars, outerVars >>

\* ---------------------------------------------------------- environment
\* Another process rewrites (or removes, or corrupts) the credentials file.
WriteCredential(c) ==
    /\ c # cred
    /\ cred' = c
    /\ UNCHANGED << appVars, ctlVars, cpc, secs, elapsed, localVars, cmdVars,
                    histVars, outerVars >>

\* Variant: the watch is established again after a failure.
WatcherSetupOkAgain ==
    /\ wpc \in {"setup", "failed"}
    /\ wpc' = "recv"
    /\ UNCHANGED << appVars, ctlVars, cpc, secs, elapsed, localVars, cred, cmdVars,
                    histVars, batchVars, chan, waited, window, since_last, raw_total,
                    cur_burst, drain_set, notifies >>

\* ------------------------------------------------------- watcher task
\* credentials_path(), recommended_watcher(..) and watcher.watch(..) succeed
WatcherSetupOk ==
    /\ wpc = "setup"
    /\ wpc' = "recv"
    /\ UNCHANGED << appVars, ctlVars, cpc, secs, elapsed, localVars, cred, cmdVars,
                    histVars, batchVars, chan, waited, window, since_last, raw_total,
                    cur_burst, drain_set, notifies >>

\* one of them fails: the closure returns
WatcherSetupFails ==
    /\ wpc = "setup"
    /\ wpc' = "failed"
    /\ UNCHANGED << appVars, ctlVars, cpc, secs, elapsed, localVars, cred, cmdVars,
                    histVars, batchVars, chan, waited, window, since_last, raw_total,
                    cur_burst, drain_set, notifies >>

\* The watcher callback sees a modify or create event: tx.send(()).
\* The event continues the current burst when it comes less than one
\* second after the previous one, otherwise it opens the next burst.
RawEventUpTo(max) ==
    /\ wpc \notin {"setup", "failed"}
    /\ raw_total < max
    /\ LET b == IF since_last < DebounceTicks THEN cur_burst ELSE cur_burst + 1
       IN /\ chan' = Append(chan, b)
          /\ cur_burst' = b
    /\ since_last' = 0
    /\ raw_total' = raw_total + 1
    /\ UNCHANGED << appVars, ctlVars, cpc, secs, elapsed, localVars, cred, cmdVars,
                    histVars, batchVars, wpc, waited, window, drain_set, notifies >>

RawEvent == RawEventUpTo(MaxEvents)

\* rx.recv() returns Ok
WatcherRecv ==
    /\ wpc = "recv"
    /\ chan # <<>>
    /\ chan' = Tail(chan)
    /\ drain_set' = {Head(chan)}
    /\ waited' = 0
    /\ window' = 0
    /\ wpc' = "drain"
    /\ UNCHANGED << appVars, ctlVars, cpc, secs, elapsed, localVars, cred, cmdVars,
                    histVars, batchVars, since_last, raw_total, cur_burst, notifies >>

\* rx.recv_timeout(1s) returns Ok: the while loop calls it again
WatcherDrain ==
    /\ wpc = "drain"
    /\ chan # <<>>
    /\ chan' = Tail(chan)
    /\ drain_set' = drain_set \cup {Head(chan)}
    /\ waited' = 0
    /\ window' = window
    /\ UNCHANGED << appVars, ctlVars, cpc, secs, elapsed, localVars, cred, cmdVars,
                    histVars, batchVars, wpc, since_last, raw_total, cur_burst,
                    notifies >>

\* Variant: the drain loop does not wait out the second.
WatcherTimeoutAtOnce ==
    /\ wpc = "drain"
    /\ chan = <<>>
    /\ waited' = 0
    /\ window' = 0
    /\ wpc' = "notify"
    /\ UNCHANGED << appVars, ctlVars, cpc, secs, elapsed, localVars, cred, cmdVars,
                    histVars, batchVars, chan, since_last, raw_total, cur_burst,
                    drain_set, notifies >>

\* rx.recv_timeout(1s) returns Err(Timeout): the while loop ends
WatcherTimeout ==
    /\ wpc = "drain"
    /\ chan = <<>>
    /\ waited >= DebounceTicks
    /\ waited' = 0
    /\ window' = 0
    /\ wpc' = "notify"
    /\ UNCHANGED << appVars, ctlVars, cpc, secs, elapsed, localVars, cred, cmdVars,
                    histVars, batchVars, chan, since_last, raw_total, cur_burst,
                    drain_set, notifies >>

\* watcher_pc.refresh_notify.notify_one(), back to rx.recv()
WatcherNotify ==
    /\ wpc = "notify"
    /\ notify_one
    /\ CountRequest(TRUE)
    /\ notifies' = [b \in DOMAIN notifies |->
                      IF b \in drain_set THEN Min(notifies[b] + 1, 2) ELSE notifies[b]]
    /\ drain_set' = {}
    /\ wpc' = "recv"
    /\ UNCHANGED << appVars, interval, rx_unseen, cpc, secs, elapsed, localVars,
                    cred, cmdVars, histVars, chan, waited, window, since_last, raw_total,
                    cur_burst >>

\* ------------------------------------------------------------------ time
\* d ticks pass.  Single ticks are taken while a debounce clock runs; the
\* sleep of the loop is otherwise run to its deadline in one step.
DebounceClockRuns ==
    \/ since_last < DebounceTicks
    \/ wpc = "drain" /\ waited < DebounceTicks

Tick(d) ==
    /\ d >= 1
    /\ \/ d = 1 /\ DebounceClockRuns
       \/ cpc = "wait" /\ d = Deadline - elapsed
    /\ since_last' = Min(since_last + d, DebounceTicks)
    /\ waited' = IF wpc = "drain" THEN Min(waited + d, DebounceTicks) ELSE waited
    /\ window' = IF wpc = "drain" THEN Min(window + d, DebounceTicks + 1) ELSE window
    /\ elapsed' = IF cpc = "wait" THEN Min(elapsed + d, Deadline) ELSE elapsed
    /\ UNCHANGED << appVars, ctlVars, cpc, secs, localVars, cred, cmdVars, histVars,
                    batchVars, wpc, chan, raw_total, cur_burst, drain_set, notifies >>

TickSteps == {1} \cup {Deadline - elapsed}

\* ------------------------------------------------------- specification
PrimaryResults == {Err} \cup {Ok(s) : s \in Snapshots}
CopilotResults == {Err} \cup {Ok(c) : c \in CopilotData}

\* The steps of do_fetch up to the primary fetch and its two arms, for the
\* given outcomes of fetch_usage and of read_app_config.
PrimarySteps(primary, configs) ==
    \/ \E now_ms \in NowValues : ReadToken(now_ms)
    \/ LockClient
    \/ CloneClient
    \/ \E r \in primary, cfg \in configs : FetchClaude(r, cfg)
    \/ EmitUsageUpdate
    \/ EmitStatusOk
    \/ LockWrite
    \/ WriteState
    \/ EmitFetchError
    \/ Return

\* The steps of do_fetch that exist only with a GitHub configuration.
SecondarySteps(secondary) ==
    \/ \E r \in secondary : FetchCopilot(r)
    \/ EmitCopilotOnly

LoopSteps ==
    \/ InitialFetch
    \/ PollNotified
    \/ PollChanged
    \/ Register
    \/ TimerFires
    \/ NotifiedFires
    \/ ChangedFires

WatcherSteps(max) ==
    \/ WatcherSetupOk
    \/ WatcherSetupFails
    \/ RawEventUpTo(max)
    \/ WatcherRecv
    \/ WatcherDrain
    \/ WatcherTimeout
    \/ WatcherNotify

\* The whole program with every input.
Next ==
    \/ LoopSteps
    \/ PrimarySteps(PrimaryResults, BOOLEAN)
    \/ SecondarySteps(CopilotResults)
    \/ force_refresh
    \/ \E seconds \in IntervalInputs : set_polling_interval(seconds)
    \/ GetUsageLock
    \/ GetUsageRead
    \/ \E c \in CredValues : WriteCredential(c)
    \/ WatcherSteps(MaxEvents)
    \/ \E d \in TickSteps : Tick(d)

Spec == Init /\ [][Next]_vars

\* Commands: force_refresh and set_polling_interval with every input against
\* the loop and the timer; the watcher never comes up and the credentials
\* file is not rewritten.
InitSched == Init /\ cred \in {Err, GoodCred}

NextSched ==
    \/ LoopSteps
    \/ PrimarySteps({Ok(1), Err}, BOOLEAN)
    \/ SecondarySteps({Ok(1), Err})
    \/ force_refresh
    \/ \E seconds \in IntervalInputs : set_polling_interval(seconds)
    \/ \E d \in TickSteps : Tick(d)

SpecSched == InitSched /\ [][NextSched]_vars

\* Triggers: the timer, force_refresh, the watcher and interval changes all
\* at once against the loop; one accepted interval, no GitHub configuration.
InitTriggers == Init /\ cred = GoodCred

NextTriggers ==
    \/ LoopSteps
    \/ PrimarySteps({Ok(1), Err}, {FALSE})
    \/ force_refresh
    \/ set_polling_interval(MinInterval)
    \/ WatcherSteps(MaxSignals)
    \/ \E d \in TickSteps : Tick(d)

SpecTriggers == InitTriggers /\ [][NextTriggers]_vars

\* The same under the scheduling the runtime gives the polling task: a task
\* that can run is run (the first fetch, a stored permit found at the top of
\* the loop, a delivered notification), and every started cycle runs to its
\* end.  Nothing is assumed about the passing of time or about which branch
\* select! takes when several are ready.
FairTriggers ==
    /\ SpecTriggers
    /\ WF_vars(InitialFetch)
    /\ WF_vars(PollNotified)
    /\ WF_vars(NotifiedFires)
    /\ WF_vars(PrimarySteps({Ok(1), Err}, {FALSE}))

\* Commands with time that passes: the runtime's clock advances, a sleep
\* whose duration has passed completes, a task that can be polled is
\* polled, on whichever branch of select!, and every cycle runs to its end.
FairSched ==
    /\ SpecSched
    /\ WF_vars(InitialFetch)
    /\ WF_vars(PollNotified)
    /\ WF_vars(PollChanged)
    /\ WF_vars(Register)
    /\ WF_vars(TimerFires)
    /\ WF_vars(NotifiedFires)
    /\ WF_vars(PrimarySteps({Ok(1), Err}, BOOLEAN))
    /\ WF_vars(SecondarySteps({Ok(1), Err}))
    /\ WF_vars(\E d \in TickSteps : Tick(d))

\* Watcher setup: the watcher comes up or fails, sees at most one raw
\* event, and the loop is driven by the timer, force_refresh and the
\* watcher's signal, under the same scheduling.
NextSetup ==
    \/ InitialFetch
    \/ PollNotified
    \/ Register
    \/ TimerFires
    \/ NotifiedFires
    \/ PrimarySteps({Ok(1), Err}, {FALSE})
    \/ force_refresh
    \/ WatcherSetupOk
    \/ WatcherSetupFails
    \/ RawEventUpTo(1)
    \/ WatcherRecv
    \/ WatcherTimeout
    \/ WatcherNotify
    \/ \E d \in TickSteps : Tick(d)

SpecSetup == InitTriggers /\ [][NextSetup]_vars

FairSetup ==
    /\ SpecSetup
    /\ WF_vars(InitialFetch)
    /\ WF_vars(PollNotified)
    /\ WF_vars(Register)
    /\ WF_vars(TimerFires)
    /\ WF_vars(NotifiedFires)
    /\ WF_vars(PrimarySteps({Ok(1), Err}, {FALSE}))
    /\ WF_vars(\E d \in TickSteps : Tick(d))

\* Requests: force_refresh, one watcher signal, the timer and interval
\* changes against the loop, under the scheduling of FairTriggers.
NextRequests ==
    \/ LoopSteps
    \/ PrimarySteps({Ok(1), Err}, {FALSE})
    \/ force_refresh
    \/ set_polling_interval(MinInterval)
    \/ WatcherSetupOk
    \/ WatcherSetupFails
    \/ RawEventUpTo(1)
    \/ WatcherRecv
    \/ WatcherTimeout
    \/ WatcherNotify
    \/ \E d \in TickSteps : Tick(d)

SpecRequests == InitTriggers /\ [][NextRequests]_vars

FairRequests ==
    /\ SpecRequests
    /\ WF_vars(InitialFetch)
    /\ WF_vars(PollNotified)
    /\ WF_vars(NotifiedFires)
    /\ WF_vars(PrimarySteps({Ok(1), Err}, {FALSE}))

\* Fetch cycle: every outcome of a cycle against get_usage and a credentials
\* file that changes; cycles are started by the timer and by force_refresh,
\* and the interval is sent again under them.
NextFetch ==
    \/ LoopSteps
    \/ PrimarySteps(PrimaryResults, BOOLEAN)
    \/ SecondarySteps(CopilotResults)
    \/ force_refresh
    \/ GetUsageLock
    \/ set_polling_interval(InitialInterval)
    \/ GetUsageRead
    \/ \E c \in CredValues : WriteCredential(c)
    \/ \E d \in TickSteps : Tick(d)

SpecFetch == Init /\ [][NextFetch]_vars

\* Cycles: every outcome of do_fetch, with cycles started by the first
\* fetch, the timer and force_refresh, and a credentials file that changes;
\* no interval change and no get_usage call.
NextCycles ==
    \/ InitialFetch
    \/ PollNotified
    \/ Register
    \/ TimerFires
    \/ NotifiedFires
    \/ PrimarySteps(PrimaryResults, BOOLEAN)
    \/ SecondarySteps(CopilotResults)
    \/ force_refresh
    \/ \E c \in CredValues : WriteCredential(c)
    \/ \E d \in TickSteps : Tick(d)

SpecCycles == Init /\ [][NextCycles]_vars

\* The same with a polling task that is run whenever it can run and remote
\* calls that return (the HTTP client has a 30 s timeout).
FairCycles ==
    /\ SpecCycles
    /\ WF_vars(InitialFetch)
    /\ WF_vars(PollNotified)
    /\ WF_vars(Register)
    /\ WF_vars(NotifiedFires)
    /\ WF_vars(PrimarySteps(PrimaryResults, BOOLEAN))
    /\ WF_vars(SecondarySteps(CopilotResults))

\* Watcher: bursts of raw events against the debounce loop and the polling
\* loop it signals, with interval changes.
NextWatcher ==
    \/ LoopSteps
    \/ PrimarySteps({Ok(1), Err}, {FALSE})
    \/ set_polling_interval(MinInterval)
    \/ WatcherSteps(MaxEvents)
    \/ \E d \in TickSteps : Tick(d)

SpecWatcher == InitTriggers /\ [][NextWatcher]_vars

\* ================================================================ claims

\* C1: N >= 1 force_refresh calls made while the loop is suspended in one
\* wait, with no timer expiry and no watcher signal, trigger exactly one
\* fetch cycle: one is pending or has started, and never a second one.
C1_CoalescingInWait ==
    batch_kind = "wait" =>
        /\ batch_cycles <= 1
        /\ batch_cycles = 0 => (waiter = "notified" \/ permit)

\* The token-status values of a cycle that did not get a primary snapshot.
FailedStatus ==
    \E i \in DOMAIN emitted :
        /\ emitted[i].name = "token-status"
        /\ emitted[i].status \in {"error", "expired", "fetch_error"}

PrimaryOk == IsSome(claude_result) /\ Unwrap(claude_result).ok

\* C2: between cycles latest_usage is the primary snapshot of the most
\* recent cycle whose fetch_usage succeeded; a cycle ending with status
\* error, expired or fetch_error leaves it as it was at the cycle's start;
\* once set it is never empty again.
C2_LastKnownGood ==
    /\ [](/\ ~InFetch => latest_usage = last_good
          /\ (cpc = "ret" /\ PrimaryOk) => latest_usage = Unwrap(claude_result).val
          /\ (cpc = "ret" /\ FailedStatus) => latest_usage = usage_at_start)
    /\ [][IsSome(latest_usage) => IsSome(latest_usage')]_vars

C2_Witness ==
    /\ cpc = "ret" /\ FailedStatus /\ ~PrimaryOk
    /\ IsSome(claude_result)
    /\ latest_usage = Some(MaxSnap) /\ trigger = "notify"

\* C3: set_polling_interval succeeds exactly for 10..600 and then the
\* channel holds that value, which a wait with no unseen change uses; a
\* rejected call leaves the held interval (always within 10..600) untouched.
C3_SetPollingInterval ==
    /\ [](/\ interval \in MinInterval..MaxInterval
          /\ set_ret # "none" =>
                (set_ret = "Ok" <=> set_arg \in MinInterval..MaxInterval)
          /\ set_ret = "Ok" => interval = set_arg
          /\ (cpc = "wait" /\ ~rx_unseen) => secs = interval)
    /\ [][(set_ret' = "Err" /\ <<set_arg, set_ret>>' # <<set_arg, set_ret>>)
            => UNCHANGED << interval, rx_unseen >>]_vars

C3_Witness ==
    /\ cpc = "wait" /\ ~rx_unseen
    /\ secs = MaxInterval /\ interval = MaxInterval
    /\ set_arg = MaxInterval + 1 /\ set_ret = "Err"

\* The bursts numbered so far, and the events still queued.
Bursts == 1..cur_burst
Queued == {chan[i] : i \in DOMAIN chan}

\* C4: every burst of raw events, each less than a second after the one
\* before, is covered by exactly one notify_one call, made only after the
\* last event of the burst was received and no further event can join it.
C4_Debounce ==
    /\ \A b \in Bursts : notifies[b] <= 1
    /\ wpc = "notify" =>
          \A b \in drain_set :
              /\ b \notin Queued
              /\ b < cur_burst \/ since_last >= DebounceTicks
    /\ \A b \in Bursts :
          notifies[b] = 1 =>
              /\ b \notin Queued /\ b \notin drain_set
              /\ b < cur_burst \/ since_last >= DebounceTicks
    /\ (wpc = "recv" /\ chan = <<>>) => \A b \in Bursts : notifies[b] = 1

\* One burst of three events, all received, one notify_one call.
C4_Witness ==
    /\ raw_total >= 3 /\ cur_burst = 1
    /\ wpc = "recv" /\ chan = <<>>
    /\ notifies[1] = 1

\* A successful primary fetch has run to the end of do_fetch.
CompletedOk == ever_ok \/ (cpc = "ret" /\ PrimaryOk)

\* C5: get_usage returns the error exactly when no cycle with a successful
\* primary fetch has run to its end, and the stored snapshot otherwise.
C5_GetUsage ==
    [][(rpc = "locked" /\ rpc' = "idle") =>
          /\ (usage_ret' = Some(Err)) <=> ~CompletedOk
          /\ CompletedOk =>
                (IsSome(latest_usage) /\ usage_ret' = Some(Ok(Unwrap(latest_usage))))]_vars

\* get_usage failed before the first good cycle and now returned the
\* snapshot stored by the latest one.
C5_Witness ==
    /\ rpc = "idle" /\ ever_ok
    /\ usage_ret = Some(Ok(MaxSnap)) /\ latest_usage = Some(MaxSnap)

\* C6: at most one do_fetch is in progress, whatever triggers arrive
\* while it runs.
C6_OneCycleAtATime ==
    /\ inflight <= 1
    /\ InFetch <=> inflight = 1

C6_Witness ==
    /\ InFetch /\ inflight = 1 /\ trigger = "timer"
    /\ permit /\ rx_unseen /\ batch_n >= 2

\* C7: N >= 1 refresh requests made while one cycle runs leave exactly one
\* further cycle pending; it starts before the loop suspends in a wait
\* again, and after it has started nothing more is pending.
C7_CoalescingInCycle ==
    batch_kind = "cycle" =>
        /\ batch_cycles <= 1
        /\ batch_cycles = 0 => (permit /\ cpc # "wait")
        /\ batch_cycles = 1 => (~permit /\ waiter # "notified")

C7_Witness ==
    /\ batch_kind = "cycle" /\ batch_n >= 2 /\ batch_cycles = 1
    /\ cpc = "wait"

\* C8: the changed() arm only goes back to the top of the loop, a call of
\* set_polling_interval moves neither the loop nor a cycle, every wait
\* begins at zero with the interval of that moment, and no cycle is ever
\* started by an interval change.
C8_IntervalChange ==
    /\ [](InFetch => trigger \in {"initial", "timer", "notify"})
    /\ [][/\ (rx_unseen /\ ~rx_unseen') => (cpc' = "loop" /\ inflight' = inflight)
          /\ (<<set_arg, set_ret, interval>>' # <<set_arg, set_ret, interval>>
                \/ (~rx_unseen /\ rx_unseen'))
               => (cpc' = cpc /\ inflight' = inflight)
          /\ (cpc # "wait" /\ cpc' = "wait")
               => (secs' = interval' /\ elapsed' = 0 /\ ~rx_unseen')]_vars

\* An accepted change to the same value arrived in a wait together with a
\* force_refresh; the changed() arm won and sent the loop back to its top
\* with the request still pending and no cycle started.
C8_Witness ==
    /\ cpc = "loop" /\ ~rx_unseen /\ inflight = 0
    /\ batch_kind = "wait" /\ batch_cycles = 0 /\ permit
    /\ set_ret = "Ok" /\ set_arg = InitialInterval /\ interval = InitialInterval

\* A request was made and no cycle triggered by refresh_notify has started
\* since.
RequestPending == batch_n > 0 /\ batch_cycles = 0

\* C9: every refresh request, whatever the loop was doing when it was made,
\* is eventually followed by the start of a cycle that refresh_notify
\* triggers, with no assumption that the timer ever expires.
C9_NoLostWakeup == RequestPending ~> (batch_cycles > 0)

\* A request made while the timer's own cycle was about to start is served
\* by a second cycle.
C9_Witness ==
    /\ batch_kind = "mixed" /\ batch_n >= 2 /\ batch_cycles = 1
    /\ InFetch /\ trigger = "notify" /\ notifies[1] = 1

\* What the usage-update payload must carry as Copilot data: the data
\* fetch_copilot_usage returned, when a configuration was read and the
\* call succeeded.
SecondaryOutcome ==
    IF github_config = Some(TRUE) /\ IsSome(copilot_fetched)
           /\ Unwrap(copilot_fetched).ok
    THEN Unwrap(copilot_fetched).val
    ELSE None

\* C10: a cycle whose primary fetch succeeded ends having emitted
\* usage-update with that snapshot and the secondary result passed through,
\* then token-status ok, and having stored the snapshot in latest_usage.
C10_SuccessfulCycle ==
    (cpc = "ret" /\ PrimaryOk) =>
        /\ IsSome(token_info)
        /\ emitted = << UsageUpdate(Unwrap(Unwrap(claude_result).val), SecondaryOutcome),
                        TokenStatus("ok") >>
        /\ latest_usage = Unwrap(claude_result).val

C10_Witness ==
    /\ cpc = "ret" /\ PrimaryOk
    /\ Len(emitted) = 2
    /\ emitted[1] = UsageUpdate(MaxSnap, Some(MaxCop))
    /\ latest_usage = Some(MaxSnap)

\* The events of the cycle in progress, and its token-status values in order.
Emitted == {emitted[i] : i \in DOMAIN emitted}
IsStatus(e) == e.name = "token-status"
Statuses == SelectSeq(emitted, IsStatus)

\* C11: a cycle whose primary fetch failed ends having emitted token-status
\* fetch_error, no usage-update, and copilot-only-update with the Copilot
\* data exactly when a configuration was read and fetch_copilot_usage
\* succeeded in this cycle; latest_usage is what it was at the cycle's start.
C11_DegradedMode ==
    (cpc = "ret" /\ IsSome(claude_result) /\ ~PrimaryOk) =>
        /\ emitted = << TokenStatus("fetch_error") >> \o
                     (IF IsSome(SecondaryOutcome)
                      THEN << CopilotOnlyUpdate(Unwrap(SecondaryOutcome)) >>
                      ELSE << >>)
        /\ latest_usage = usage_at_start

C11_Witness ==
    /\ cpc = "ret" /\ IsSome(claude_result) /\ ~PrimaryOk
    /\ emitted = << TokenStatus("fetch_error"), CopilotOnlyUpdate(MaxCop) >>
    /\ latest_usage = Some(MaxSnap)

\* C12: a cycle that finds the credentials file unreadable or malformed
\* emits token-status error and nothing else and returns; fetch_usage and
\* fetch_copilot_usage are not called, latest_usage is what it was (empty
\* in the first cycle), and the cycle itself signals nothing to the loop.
C12_UnreadableCredential ==
    /\ []((cpc = "ret" /\ TokenStatus("error") \in Emitted) =>
            /\ emitted = << TokenStatus("error") >>
            /\ token_info = None /\ now_read = 0
            /\ claude_result = None /\ fetch_token = None
            /\ github_config = None /\ copilot_fetched = None
            /\ latest_usage = usage_at_start
            /\ trigger = "initial" => latest_usage = None)
    /\ [][(cpc = "read_token" /\ cpc' # cpc /\ ~cred.ok) =>
            (cpc' = "ret" /\ emitted' = << TokenStatus("error") >>)]_vars
    /\ [][(InFetch /\ cpc' # cpc) => UNCHANGED << permit, waiter, rx_unseen >>]_vars

C12_Witness ==
    /\ cpc = "ret" /\ emitted = << TokenStatus("error") >>
    /\ trigger = "initial" /\ latest_usage = None /\ ~cred.ok

\* C13: a cycle reads the clock once; with now_ms + 30000 >= expires_at,
\* the boundary included, it emits token-status expired and returns with
\* no fetch made and latest_usage as it was; with now_ms + 30000 <
\* expires_at it goes on to the fetch and emits no expired status.
C13_ExpiredToken ==
    /\ [][(cpc = "read_token" /\ cpc' # cpc /\ cred.ok) =>
            /\ now_read' \in NowValues
            /\ now_read' + 30000 >= Unwrap(cred.val).expires_at =>
                   (cpc' = "ret" /\ emitted' = << TokenStatus("expired") >>)
            /\ now_read' + 30000 < Unwrap(cred.val).expires_at =>
                   (cpc' = "lock_client" /\ emitted' = << >>)]_vars
    /\ [](TokenStatus("expired") \in Emitted =>
            /\ cpc = "ret"
            /\ emitted = << TokenStatus("expired") >>
            /\ now_read + 30000 >= Unwrap(token_info).expires_at
            /\ claude_result = None /\ fetch_token = None
            /\ github_config = None /\ copilot_fetched = None
            /\ latest_usage = usage_at_start)

\* The boundary case: now_ms + 30000 = expires_at.
C13_Witness ==
    /\ cpc = "ret" /\ emitted = << TokenStatus("expired") >>
    /\ now_read + 30000 = Unwrap(token_info).expires_at
    /\ latest_usage = Some(MaxSnap)

\* C14: once fetch_usage was called, the cycle runs to its match whatever
\* the Copilot side does; the token-status it emits and the value
\* latest_usage ends with are functions of the primary result alone, and a
\* failed fetch_copilot_usage or a missing configuration only makes
\* copilot_result None.
C14_SecondaryNeverAborts ==
    /\ [](cpc \in {"match", "emit_ok", "lock_write", "write_state", "emit_copilot"} =>
            (IsSome(claude_result) /\ copilot_result = SecondaryOutcome))
    /\ []((cpc = "ret" /\ IsSome(claude_result)) =>
            /\ copilot_result = SecondaryOutcome
            /\ Statuses = << TokenStatus(IF PrimaryOk THEN "ok" ELSE "fetch_error") >>
            /\ latest_usage = IF PrimaryOk THEN Unwrap(claude_result).val
                              ELSE usage_at_start)
    /\ [][(cpc = "fetch_copilot" /\ cpc' # cpc) => cpc' = "match"]_vars

\* A cycle with a failed Copilot fetch that still published and stored the
\* primary snapshot.
C14_Witness ==
    /\ cpc = "ret" /\ PrimaryOk
    /\ github_config = Some(TRUE) /\ copilot_fetched = Some(Err)
    /\ emitted = << UsageUpdate(MaxSnap, None), TokenStatus("ok") >>
    /\ latest_usage = Some(MaxSnap)

\* C15: every do_fetch ends with exactly one token-status event, with a
\* value among ok, error, expired and fetch_error, and does end; from its
\* end the task goes back to the top of the loop, and from there it is
\* again waiting in select! or running the next cycle.
C15_CycleBoundary ==
    /\ [](cpc = "ret" =>
            /\ Len(Statuses) = 1
            /\ Statuses[1].status \in {"ok", "error", "expired", "fetch_error"})
    /\ [](~InFetch => emitted = << >>)
    /\ [][cpc = "ret" => cpc' \in {"ret", "loop"}]_vars
    /\ InFetch ~> (cpc = "loop")
    /\ (cpc = "loop") ~> (cpc = "wait" \/ InFetch)

\* After a cycle that failed at the credential, the task waits in select!
\* again.
C15_Witness ==
    /\ cpc = "wait" /\ waiter = "waiting" /\ ~cred.ok
    /\ latest_usage = None /\ batch_cycles = 1

\* C17: read_token_info runs at the start of every cycle and yields what
\* the credentials file holds at that moment; the expiry check and
\* fetch_usage of the cycle use that value, and nothing of it is kept once
\* the cycle has returned.
C17_FreshCredential ==
    /\ [][(cpc = "read_token" /\ cpc' # cpc) =>
            token_info' = (IF cred.ok THEN cred.val ELSE None)]_vars
    /\ [][(cpc # "read_token" /\ cpc' = "read_token") =>
            (token_info' = None /\ fetch_token' = None /\ now_read' = 0)]_vars
    /\ [](IsSome(fetch_token) =>
            (IsSome(token_info) /\ fetch_token = Some(Unwrap(token_info).access_token)))
    /\ [](~InFetch => (token_info = None /\ fetch_token = None))

\* A later cycle, started by the timer after a good one, fetched with the
\* other token although the file has changed again since.
C17_Witness ==
    /\ cpc = "match" /\ trigger = "timer" /\ ever_ok
    /\ fetch_token = Some(MaxTok) /\ last_good = Some(MaxSnap)
    /\ cred = GoodCred

\* Nothing is waiting to be picked up by select!: no stored permit, no
\* delivered notification, no unseen interval.
Quiet == ~permit /\ waiter # "notified" /\ ~rx_unseen

TimerCycle == InFetch /\ trigger = "timer"

\* C16: a watcher whose setup failed stays failed: it receives no event and
\* never calls notify_one; the polling task goes on: a force_refresh is
\* still served by a cycle, and when nothing else is pending the timer
\* starts cycles again and again.
C16_WatcherSetupFailure ==
    /\ [](wpc = "failed" =>
            /\ chan = << >> /\ drain_set = {} /\ raw_total = 0
            /\ \A b \in DOMAIN notifies : notifies[b] = 0)
    /\ [][wpc = "failed" => wpc' = "failed"]_vars
    /\ (wpc = "failed" /\ RequestPending) ~> (batch_cycles > 0)
    /\ (<>(wpc = "failed") /\ <>[]Quiet) => []<>TimerCycle

\* With the watcher gone, a timer cycle runs after a force_refresh was
\* served.
C16_Witness ==
    /\ wpc = "failed" /\ TimerCycle
    /\ batch_n >= 1 /\ batch_cycles = 1
    /\ \A b \in DOMAIN notifies : notifies[b] = 0

\* C20: the timer starts a cycle only when the wait has lasted the secs it
\* was begun with, which is the interval then held; a wait begins at zero
\* with the interval held at that moment whenever the task enters select!
\* (after the first fetch, after any cycle, after an interval change) and
\* its clock only moves forward; with nothing else pending the timer
\* starts a cycle again and again.
C20_TimerTransition ==
    /\ [][(cpc = "wait" /\ cpc' = "read_token" /\ trigger' = "timer") =>
            /\ elapsed = secs * TicksPerSec
            /\ ~rx_unseen => secs = interval]_vars
    /\ [][(cpc # "wait" /\ cpc' = "wait") =>
            (elapsed' = 0 /\ secs' = interval' /\ cpc = "loop")]_vars
    /\ [][(cpc = "wait" /\ cpc' = "wait") =>
            (secs' = secs /\ elapsed' >= elapsed)]_vars
    /\ [](cpc = "wait" => elapsed <= secs * TicksPerSec)
    /\ (cpc = "loop" /\ Quiet) ~> (cpc = "wait" \/ ~Quiet)
    /\ <>[]Quiet => []<>TimerCycle

\* A timer cycle after a wait of the changed interval.
C20_Witness ==
    /\ TimerCycle /\ secs = MinInterval /\ interval = MinInterval
    /\ ever_ok /\ Quiet /\ set_ret = "Ok" /\ batch_n >= 1

\* The cycle in progress has emitted usage-update or token-status ok.
OkPublished ==
    \E e \in Emitted : e.name = "usage-update" \/ e = TokenStatus("ok")

\* C18: whenever a cycle has emitted usage-update or token-status ok, its
\* primary snapshot is already in latest_usage, so that get_usage called
\* from then on returns it.
C18_WriteBeforeEmit ==
    OkPublished => (PrimaryOk /\ latest_usage = Unwrap(claude_result).val)

\* do_fetch is awaiting fetch_usage or fetch_copilot_usage.
RemoteCall == cpc \in {"fetch_claude", "fetch_copilot"}

\* C19: do_fetch holds the mutex only while it copies the client and while
\* it stores the snapshot, never while fetch_usage or fetch_copilot_usage is
\* awaited; during a remote call the mutex is free or held by get_usage
\* itself, so get_usage takes it and returns without the fetch returning.
C19_NoLockAcrossFetch ==
    /\ [](/\ mutex \in {"free", "fetch", "reader"}
          /\ mutex = "fetch" <=> cpc \in {"clone_client", "write_state"}
          /\ mutex = "reader" <=> rpc = "locked"
          /\ RemoteCall => mutex # "fetch")
    /\ [][(rpc = "locked" /\ rpc' = "idle") => (cpc' = cpc /\ mutex' = "free")]_vars

\* get_usage holds the lock and is about to return while the Copilot fetch
\* is in flight.
C19_Witness ==
    /\ cpc = "fetch_copilot" /\ rpc = "locked" /\ mutex = "reader"
    /\ latest_usage = Some(MaxSnap)

\* The watcher is blocked in a recv_timeout that has not expired, having
\* received the last raw event the moment it arrived.
DrainPending ==
    /\ wpc = "drain" /\ chan = << >>
    /\ waited < DebounceTicks /\ since_last = waited

\* C21: the drain loop that rx.recv() opened lasts at most one second:
\* however raw events keep arriving, the watcher is never still waiting for
\* more of them later than a second after the event that opened the window.
C21_BoundedDebounce == DrainPending => window <= DebounceTicks

====
